---- MODULE Spec2Model ----
(***************************************************************************)
(* Model of the digital-studio backend (src/index.js): the key/model       *)
(* rotation (getApiClient), the retrying invocation (callGenerativeAI),    *)
(* the JSON repair loop (parseJsonWithCorrection) and the request handlers *)
(* that sequence the agents.                                               *)
(*                                                                         *)
(* Node runs one synchronous segment at a time: a handler runs from one    *)
(* await to the next without interleaving.  The awaits are the call to     *)
(* generateContent and the 2 s backoff timer, so each action below is one  *)
(* such segment (or a local part of one) of one request r.                 *)
(***************************************************************************)
EXTENDS Integers, Sequences, FiniteSets, TLC

VARIABLES
    numClients,          \* clients.length
    numModels,           \* models.length
    currentClientIndex,  \* index.js:48
    currentModelIndex,   \* index.js:49
    selections,          \* ghost: the first MaxSel candidates getApiClient handed out
    audited,             \* ghost: the request slots whose calls record their candidates
    req,                 \* per request slot: the handler's and the invocation's locals
    given,               \* toPascalCase on its own: the string it is first given
    results              \* toPascalCase on its own: its calls so far, argument and result

vars == <<numClients, numModels, currentClientIndex, currentModelIndex, selections, audited,
          req, given, results>>

\* what no request handler ever writes
config == <<numClients, numModels, audited, given, results>>
\* the rotation state, written by getApiClient alone
rotation == <<currentClientIndex, currentModelIndex, selections>>

\* ---------------------------------------------------------------- bounds
MaxClients == 2
MaxModels == 2
MaxRuns == 2
MaxSel == 5
MaxImages == 1
MaxNames == 2
MaxLen == 3
MaxCalls == 2
MaxLiveCandidates == 2

Runs == 1..MaxRuns

\* ---------------------------------------------------------------- names
\* A string is a sequence of one-character strings.
LowerLetters == << "a","b","c","d","e","f","g","h","i","j","k","l","m",
                   "n","o","p","q","r","s","t","u","v","w","x","y","z" >>
UpperLetters == << "A","B","C","D","E","F","G","H","I","J","K","L","M",
                   "N","O","P","Q","R","S","T","U","V","W","X","Y","Z" >>
DigitChars == << "0","1","2","3","4","5","6","7","8","9" >>

Range(f) == {f[x] : x \in DOMAIN f}
IsLower(ch) == ch \in Range(LowerLetters)
IsUpper(ch) == ch \in Range(UpperLetters)
IsDigit(ch) == ch \in Range(DigitChars)

\* the class [a-zA-Z0-9] of index.js:86
IsAlnum(ch) == IsLower(ch) \/ IsUpper(ch) \/ IsDigit(ch)

IndexOf(ch, letters) == CHOOSE i \in DOMAIN letters : letters[i] = ch
\* String.prototype.toUpperCase / toLowerCase on one character
ToUpper(ch) == IF IsLower(ch) THEN UpperLetters[IndexOf(ch, LowerLetters)] ELSE ch
ToLower(ch) == IF IsUpper(ch) THEN LowerLetters[IndexOf(ch, UpperLetters)] ELSE ch

\* A name of the plan that is no string (a number, null, an object).
NotAString == << "<not a string>" >>

\* the decimal digits of n, as the template literal of index.js:83 prints them
RECURSIVE Decimal(_)
Decimal(n) == IF n < 10 THEN << DigitChars[n + 1] >>
              ELSE Decimal(n \div 10) \o << DigitChars[(n % 10) + 1] >>

\* index.js:86: every run of characters outside [a-zA-Z0-9] becomes one space
RECURSIVE ReplaceRuns(_)
ReplaceRuns(s) ==
    IF s = << >> THEN << >>
    ELSE IF IsAlnum(Head(s)) THEN << Head(s) >> \o ReplaceRuns(Tail(s))
    ELSE IF Len(s) > 1 /\ ~IsAlnum(s[2]) THEN ReplaceRuns(Tail(s))
    ELSE << " " >> \o ReplaceRuns(Tail(s))

\* index.js:87: split(' '), the words between the spaces (empty ones included)
RECURSIVE SplitSpaces(_)
SplitSpaces(s) ==
    IF \A i \in DOMAIN s : s[i] # " " THEN << s >>
    ELSE LET k == CHOOSE i \in DOMAIN s :
                      s[i] = " " /\ \A j \in 1..(i - 1) : s[j] # " "
         IN << SubSeq(s, 1, k - 1) >> \o SplitSpaces(SubSeq(s, k + 1, Len(s)))

\* index.js:88: charAt(0).toUpperCase() + slice(1).toLowerCase()
Capitalize(w) ==
    IF w = << >> THEN << >>
    ELSE << ToUpper(w[1]) >> \o [i \in 1..(Len(w) - 1) |-> ToLower(w[i + 1])]

\* index.js:89: join('')
RECURSIVE Join(_)
Join(ws) == IF ws = << >> THEN << >> ELSE Head(ws) \o Join(Tail(ws))

\* index.js:83: the fallback name, n being Math.floor(Math.random() * 1000)
ComponentN(n) == << "C","o","m","p","o","n","e","n","t" >> \o Decimal(n)

\* index.js:82: typeof str !== 'string' || !str
IsInvalid(str) == str = NotAString \/ str = << >>

\* index.js:81-90
toPascalCase(str, n) ==
    IF IsInvalid(str) THEN ComponentN(n)
    ELSE Join([i \in DOMAIN SplitSpaces(ReplaceRuns(str)) |->
                   Capitalize(SplitSpaces(ReplaceRuns(str))[i])])

\* ---------------------------------------------------------------- texts
\* A JSON value, as far as the handlers look into it: a plan (the two lists the
\* architect is asked for), an object of name -> code entries, the reviewer's
\* verdict, or anything else (null, [], a number).
NoJson == [shape |-> "none", pages |-> << >>, reusable_components |-> << >>,
           entries |-> {}, score |-> 0]
JsonPlan(pages, comps) == [NoJson EXCEPT !.shape = "plan", !.pages = pages,
                                         !.reusable_components = comps]
JsonObject(entries) == [NoJson EXCEPT !.shape = "object", !.entries = entries]
JsonReview(score) == [NoJson EXCEPT !.shape = "review", !.score = score]
JsonOther == [NoJson EXCEPT !.shape = "other"]

\* A text of the service.  fenced: it is wrapped in ``` fences; json: its body
\* parses as JSON, to val; code: what it says otherwise, an opaque content
\* <<label, number>> that no handler looks into.
NoText == [fenced |-> FALSE, json |-> FALSE, code |-> <<"none", 0>>, val |-> NoJson]
Prose(c) == [NoText EXCEPT !.code = c]
JsonText(v) == [NoText EXCEPT !.json = TRUE, !.code = <<"json", 0>>, !.val = v]
Fenced(t) == [t EXCEPT !.fenced = TRUE]

\* index.js:113, the two replace calls and trim of the free-text branch
StripFences(t) == [t EXCEPT !.fenced = FALSE]

\* index.js:112-115
ResultText(t, isJsonResponse) == IF isJsonResponse THEN t ELSE StripFences(t)

\* what the service is taken to answer where free text is asked for: a text
\* of its own for every call (the stage and the page it is asked for), with
\* or without fences
ProseTexts(rec) ==
    LET t == Prose(<<rec.stage, IF rec.stage = "PAGES" THEN rec.i + 1 ELSE 0>>)
    IN {t, Fenced(t)}

\* what the service is taken to answer where JSON is asked for: plans, objects
\* of components, other JSON, and prose that does not parse
Str(word) ==
    CASE word = "login page" -> << "l","o","g","i","n"," ","p","a","g","e" >>
      [] word = "home" -> << "h","o","m","e" >>
      [] word = "Home" -> << "H","o","m","e" >>
      [] word = "nav bar" -> << "n","a","v"," ","b","a","r" >>
      [] word = "NavBar" -> << "N","a","v","B","a","r" >>
      [] word = "--" -> << "-","-" >>
      [] OTHER -> << "F","o","o","t","e","r" >>

PlanReplies ==
    { JsonPlan(<< >>, << >>),
      JsonPlan(<< Str("login page"), Str("home") >>, << Str("nav bar") >>),
      JsonPlan(<< Str("Home"), Str("home") >>, << >>),
      JsonPlan(<< >>, << Str("nav bar"), Str("Footer") >>),
      JsonPlan(<< Str("--") >>, << NotAString >>) }

ObjectReplies ==
    { JsonObject({<<Str("NavBar"), <<"component", 1>>>>}),
      JsonObject({<<Str("Footer"), <<"component", 2>>>>}),
      JsonObject({}) }

\* the shape asked for, some other JSON, or prose that does not parse
StructuredReplies(asked) ==
    LET plain == {JsonText(v) : v \in asked \cup {JsonOther}} \cup {Prose(<<"prose", 0>>)}
    IN plain \cup {Fenced(t) : t \in plain}

ReviewReplies ==
    LET plain == {JsonText(JsonReview(85)), Prose(<<"prose", 0>>)}
    IN plain \cup {Fenced(t) : t \in plain}

\* what the service may answer to the call r is waiting for
Replies(rec) ==
    CASE rec.stage = "PLAN" -> StructuredReplies(PlanReplies)
      [] rec.stage = "COMPONENTS" -> StructuredReplies(ObjectReplies)
      [] rec.stage = "REVIEW" -> ReviewReplies
      [] OTHER -> ProseTexts(rec)

\* Math.floor(Math.random() * 1000), the draws followed
Draws == {7, 999}

\* ---------------------------------------------------------------- errors
\* What an Error thrown in the code carries: its message (index.js:96, 143;
\* the service's and the runtime's errors by their kind), and nothing else.
ErrorValue(e) ==
    [message |-> CASE e = "AllFailed" ->
                        "All API keys and models have failed. Please check your quotas and API key validity."
                   [] e = "ParseFailed" -> "Failed to parse JSON after multiple attempts."
                   [] OTHER -> e]

\* ---------------------------------------------------------------- rotation
Candidates == (0..(numClients - 1)) \X (0..(numModels - 1))

\* the rotation with the model advanced on every call
NextModelIndexEveryCall(c, m) == (m + 1) % numModels

\* index.js:60
NextClientIndex(c) == (c + 1) % numClients

\* index.js:61-64
NextModelIndex(c, m) == IF NextClientIndex(c) = 0 THEN (m + 1) % numModels ELSE m

\* a budget that counts the keys and forgets the models
maxAttemptsKeysOnly == numClients

\* a budget test that stops one attempt early
BudgetSpentOneEarly(attempt) == attempt >= numClients * numModels

\* a rotation that loses the update of the model cursor
getApiClientLostUpdate(cand) ==
    /\ cand = <<currentClientIndex, currentModelIndex>>
    /\ currentClientIndex' = (currentClientIndex + 1) % numClients
    /\ currentModelIndex' = currentModelIndex
    /\ selections' = IF Len(selections) < MaxSel THEN Append(selections, cand) ELSE selections

\* index.js:94
maxAttempts == numClients * numModels

\* index.js:95
BudgetSpent(attempt) == attempt > maxAttempts

\* index.js:52-68: hands out <<client, model>> and rotates both cursors
getApiClient(cand) ==
    /\ cand = <<currentClientIndex, currentModelIndex>>
    /\ currentClientIndex' = NextClientIndex(currentClientIndex)
    /\ currentModelIndex' = NextModelIndex(currentClientIndex, currentModelIndex)
    /\ selections' = IF Len(selections) < MaxSel THEN Append(selections, cand) ELSE selections

\* ---------------------------------------------------------------- request slots
\* Every slot serves one request, from its arrival to its response.
NoFiles == << >>

Idle ==
    [ route |-> "none", stage |-> "IDLE", pc |-> "idle",
      \* callGenerativeAI: its parameters, its result, its ghosts
      attempt |-> 0, isJsonResponse |-> FALSE, sent |-> << >>, quoted |-> {},
      calls |-> 0, rateFails |-> 0, otherFails |-> 0, tried |-> {},
      text |-> NoText, err |-> "none", thrown |-> [message |-> ""],
      \* parseJsonWithCorrection: its locals, its ghosts
      jsonString |-> NoText, attempts |-> 0, correcting |-> FALSE, parsedJson |-> NoJson,
      parses |-> 0, corrections |-> 0,
      \* the handler: req.files.length, req.body.platform, plan, generatedFiles, i
      images |-> 0, platform |-> "none", prompt |-> "none", plan |-> NoJson,
      generatedFiles |-> NoFiles, i |-> 0,
      \* ghost: the generation calls the handler has made, per stage
      issued |-> [s \in {"PLAN", "COMPONENTS", "PAGES", "ENTRY", "REVIEW"} |-> 0],
      \* the response: res.status, generatedFiles and accuracyResult of its body
      status |-> 0, body |-> NoFiles, accuracyResult |-> NoText ]

\* handlers that keep generatedFiles in one object of the module
SetSharedFiles(r, rec) ==
    req' = [q \in Runs |-> IF q = r THEN rec
                            ELSE [req[q] EXCEPT !.generatedFiles = rec.generatedFiles]]

\* the locals of a handler's invocation are its own: a step of request r
\* assigns to the slot of r
Set(r, rec) == req' = [req EXCEPT ![r] = rec]

\* What of the request's state the prompt of a stage's call has spliced into
\* it (index.js:319, 331-333, 350-357, 364, 370; 408, 420-422, 438-439, 447,
\* 453; 480-497; 523, 535-537, 554-555, 562, 568).
Interpolated(rec, stage) ==
    (IF rec.route \in {"text", "analyze"} /\ stage \in {"ANALYZE", "PLAN", "PAGES", "REVIEW"}
     THEN {"prompt"} ELSE {})
    \cup (CASE stage = "COMPONENTS" -> {"plan.reusable_components"}
            [] stage = "PAGES" /\ rec.route = "native" -> {"plan.pages[i]"}
            [] stage = "PAGES" -> {"plan.pages[i]", "plan.reusable_components"}
            [] stage = "ENTRY" -> {"plan.pages", "plan.pages[0]"}
            [] OTHER -> {})

\* A logical call callGenerativeAI(prompt, images, isJson) with attempt = 1.
\* Ghosts of the call: calls counts the requests sent to the service, rateFails
\* and otherFails those it failed (with 429, with anything else), tried the
\* candidates used (recorded for audited slots).
Invoke(rec, stage, isJson, images) ==
    [rec EXCEPT !.stage = stage, !.pc = "enter", !.attempt = 1,
                !.isJsonResponse = isJson, !.sent = images,
                !.quoted = Interpolated(rec, stage),
                !.calls = 0, !.rateFails = 0,
                !.otherFails = 0,
                !.tried = {}, !.text = NoText, !.err = "none", !.thrown = [message |-> ""],
                !.issued = IF stage \in DOMAIN @ THEN [@ EXCEPT ![stage] = @ + 1] ELSE @]

\* a start that lets an empty list of keys through
StartedAnyPool ==
    /\ numClients \in 0..MaxClients
    /\ numModels \in 1..MaxModels
    /\ currentClientIndex = 0
    /\ currentModelIndex = 0
    /\ selections = <<>>
    /\ req = [r \in Runs |-> Idle]

\* index.js:29-49: the pools are built, both cursors start at 0.  The keys are
\* literals that pass the filter of line 33, so the list is never empty and
\* the exit of lines 35-41 is never taken; GEMINI_MODELS.split(',') has at
\* least one element.
Started ==
    /\ numClients \in 1..MaxClients
    /\ numModels \in 1..MaxModels
    /\ currentClientIndex = 0
    /\ currentModelIndex = 0
    /\ selections = <<>>
    /\ req = [r \in Runs |-> Idle]

\* toPascalCase is not being looked at on its own
NoCalls == given = << >> /\ results = << >>

Init == Started /\ audited = {} /\ NoCalls

InitAudit == Started /\ audited = Runs /\ NoCalls

\* ---------------------------------------------------------------- callGenerativeAI
\* index.js:93-107: the budget test, then getApiClient and the call to the service
Attempt(r) ==
    /\ req[r].pc = "enter"
    /\ IF BudgetSpent(req[r].attempt)
       THEN /\ Set(r, [req[r] EXCEPT !.pc = "threw", !.err = "AllFailed",
                                     !.thrown = ErrorValue("AllFailed")])
            /\ UNCHANGED rotation
       ELSE \E cand \in Candidates :
            /\ getApiClient(cand)
            /\ Set(r, [req[r] EXCEPT !.pc = "await", !.calls = @ + 1,
                                     !.tried = IF r \in audited THEN @ \cup {cand} ELSE @])
    /\ UNCHANGED config

\* index.js:109-115: the service answers; fences are stripped from free text
ServiceOk(r, t) ==
    /\ req[r].pc = "await"
    /\ Set(r, [req[r] EXCEPT !.pc = "returned",
                             !.text = ResultText(t, req[r].isJsonResponse)])
    /\ UNCHANGED <<config, rotation>>

\* a retry at once, without the wait
ServiceRateLimitNoWait(r) ==
    /\ req[r].pc = "await"
    /\ Set(r, [req[r] EXCEPT !.pc = "enter", !.rateFails = @ + 1, !.attempt = @ + 1])
    /\ UNCHANGED <<config, rotation>>

\* index.js:116-121: the service answers 429; the 2 s timer is started
ServiceRateLimit(r) ==
    /\ req[r].pc = "await"
    /\ Set(r, [req[r] EXCEPT !.pc = "backoff", !.rateFails = @ + 1])
    /\ UNCHANGED <<config, rotation>>

\* index.js:116-117,124-125: any other error is thrown again
ServiceError(r) ==
    /\ req[r].pc = "await"
    /\ Set(r, [req[r] EXCEPT !.pc = "threw", !.err = "ServiceError",
                             !.thrown = ErrorValue("ServiceError"),
                             !.otherFails = @ + 1])
    /\ UNCHANGED <<config, rotation>>

\* a retry that does not count
BackoffDoneUncounted(r) ==
    /\ req[r].pc = "backoff"
    /\ Set(r, [req[r] EXCEPT !.pc = "enter"])
    /\ UNCHANGED <<config, rotation>>

\* index.js:121-122: the timer fires; the call recurses with attempt + 1
BackoffDone(r) ==
    /\ req[r].pc = "backoff"
    /\ Set(r, [req[r] EXCEPT !.pc = "enter", !.attempt = @ + 1])
    /\ UNCHANGED <<config, rotation>>

\* ---------------------------------------------------------------- files
\* A path is <<prefix, name, suffix>>; the name is the identifier spliced in.
Path(prefix, name, suffix) == << prefix, name, suffix >>
Fixed(path) == << path, << >>, "" >>

\* a map that keeps what a path already holds
WriteKeepsFirst(files, path, content) ==
    [q \in DOMAIN files \cup {path} |-> IF q \in DOMAIN files THEN files[q] ELSE content]

\* generatedFiles[path] = content: the last write wins
Write(files, path, content) ==
    [q \in DOMAIN files \cup {path} |-> IF q = path THEN content ELSE files[q]]

\* delete generatedFiles[path]
Delete(files, path) == [q \in DOMAIN files \ {path} |-> files[q]]

RECURSIVE WriteAll(_, _)
WriteAll(files, writes) ==
    IF writes = {} THEN files
    ELSE LET w == CHOOSE x \in writes : TRUE
         IN WriteAll(Write(files, w[1], w[2]), writes \ {w})

\* index.js:404-405
fileExt(rec) == IF rec.platform = "android" THEN "kt" ELSE "swift"
mainFileName(rec) == IF rec.platform = "android" THEN "MainActivity.kt" ELSE "ContentView.swift"

\* index.js:342, 430, 545
ComponentPath(rec, name) ==
    IF rec.route = "native" THEN Path("components/", name, fileExt(rec))
    ELSE Path("src/components/", name, "jsx")

\* index.js:359, 442, 557
PagePath(rec, name) ==
    IF rec.route = "native" THEN Path("screens/", name, fileExt(rec))
    ELSE Path("src/pages/", name, "jsx")

\* index.js:366, 449, 564
EntryPath(rec) ==
    CASE rec.route = "web" -> Fixed("src/App.js")
      [] rec.route = "text" -> Fixed("src/App.jsx")
      [] OTHER -> Fixed(mainFileName(rec))

Scaffold == Prose(<<"scaffold", 0>>)

\* index.js:153-239
getProjectFiles(generatedFiles) ==
    WriteAll(generatedFiles,
             {<<Fixed(f), Scaffold>> : f \in {"package.json", "README.md", "public/index.html",
                                            "public/favicon.ico", "src/index.js", "src/index.css"}})

\* index.js:285, 289: the path the entry file is copied to
NativeEntryPath(rec) ==
    IF rec.platform = "android"
    THEN Fixed("app/src/main/java/com/example/<project>/MainActivity.kt")
    ELSE Fixed("<project>/ContentView.swift")

\* index.js:242-294: the files returned (allFiles)
getNativeProjectFiles(rec) ==
    LET main == Fixed(mainFileName(rec))
        entry == IF main \in DOMAIN rec.generatedFiles THEN rec.generatedFiles[main] ELSE NoText
        added == IF rec.platform = "android"
                 THEN {<<Fixed("README.md"), Scaffold>>, <<Fixed("build.gradle.kts"), Scaffold>>,
                       <<Fixed("gradle/libs.versions.toml"), Scaffold>>}
                 ELSE {<<Fixed("README.md"), Scaffold>>}
    IN Write(WriteAll(rec.generatedFiles, added), NativeEntryPath(rec), entry)

\* index.js:286, 290: the entry deleted from the handler's generatedFiles
AfterNativeAssembly(rec) == Delete(rec.generatedFiles, Fixed(mainFileName(rec)))

\* ---------------------------------------------------------------- the stages
Stages == {"PLAN", "COMPONENTS", "PAGES", "ENTRY", "REVIEW"}
Pipelines == {"web", "native", "text"}

\* imageParts, and imageParts[i] (0 stands for undefined)
AllImages(rec) == [k \in 1..rec.images |-> k]
ImagePart(rec, i) == IF i < rec.images THEN i + 1 ELSE 0

\* index.js:365-371, 448-454, 563-569: the entry is stored, the reviewer is called
ToReview(rec) ==
    Invoke(rec, "REVIEW", TRUE,
           IF rec.route = "text" THEN << >> ELSE << ImagePart(rec, 0) >>)

\* index.js:362-365, 445-448, 560-563
ToEntry(rec) == Invoke(rec, "ENTRY", FALSE, << >>)

\* a page loop that hands over to the entry at once
ToPagesSkipped(rec) == Invoke(rec, "ENTRY", FALSE, << >>)

\* a page loop that tests after its body
MorePagesAfterBody(rec) == rec.i = 0 \/ rec.i < Len(rec.plan.pages)

\* a component builder called whatever the list
HasComponentsAlways(rec) == TRUE

\* index.js:349, 437, 552: the loop test
MorePages(rec) == rec.i < Len(rec.plan.pages)

\* index.js:349-358, 437-441, 552-556: the next page is asked for, or the loop ends
ToPages(rec) ==
    IF MorePages(rec)
    THEN Invoke(rec, "PAGES", FALSE,
                IF rec.route = "text" THEN << >> ELSE << ImagePart(rec, rec.i) >>)
    ELSE ToEntry(rec)

\* index.js:330, 419, 534
HasComponents(rec) == Len(rec.plan.reusable_components) > 0

\* the images handed to parseJsonWithCorrection and to the component builder
PlanImages(rec) == IF rec.route = "text" THEN << >> ELSE AllImages(rec)

\* index.js:330-336, 419-424, 534-539
ToComponents(rec) ==
    IF HasComponents(rec)
    THEN Invoke(rec, "COMPONENTS", FALSE, PlanImages(rec))
    ELSE ToPages(rec)

Throw(rec, e) == [rec EXCEPT !.pc = "threw", !.err = e, !.thrown = ErrorValue(e)]

\* parseJsonWithCorrection has returned: its locals are gone
Parsed(rec) == [rec EXCEPT !.jsonString = NoText, !.attempts = 0, !.correcting = FALSE,
                           !.parsedJson = NoJson, !.parses = 0, !.corrections = 0]

\* res.json / res.status(..).json: the response is sent, the frames of the
\* calls are gone
Respond(rec, status, files, review) ==
    [rec EXCEPT !.pc = "responded", !.status = status, !.body = files,
                !.accuracyResult = review,
                !.attempt = 0, !.isJsonResponse = FALSE, !.sent = << >>, !.quoted = {},
                !.calls = 0, !.rateFails = 0, !.otherFails = 0, !.tried = {},
                !.text = NoText, !.jsonString = NoText, !.attempts = 0,
                !.correcting = FALSE, !.parsedJson = NoJson,
                !.parses = 0, !.corrections = 0]

\* ---------------------------------------------------------------- parseJsonWithCorrection
\* a loop with one more round
parseMaxAttemptsFour == 3 + 1

\* a loop that gives up one round early
GivesUpEarly(attempts) == attempts >= 2

\* index.js:132
parseMaxAttempts == 3

\* index.js:136-137: JSON.parse of the text without its fences succeeds
ParseOk(t) == StripFences(t).json

\* index.js:137: what JSON.parse returns
JsonParse(t) == StripFences(t).val

\* index.js:142
GivesUp(attempts) == attempts >= parseMaxAttempts

\* a loop that takes a failed correction call for one more text to parse
BeginParseSwallows(r) ==
    /\ req[r].stage \in {"PLAN", "COMPONENTS"}
    /\ req[r].pc = "returned" \/ (req[r].pc = "threw" /\ req[r].correcting)
    /\ Set(r, [req[r] EXCEPT !.pc = "parse",
                  !.jsonString = IF req[r].pc = "returned" THEN req[r].text ELSE @,
                  !.err = "none", !.thrown = [message |-> ""],
                  !.correcting = FALSE,
                  !.attempts = IF req[r].correcting THEN @ ELSE 0,
                  !.parses = IF req[r].correcting THEN @ ELSE 0,
                  !.corrections = IF req[r].correcting THEN @ ELSE 0])
    /\ UNCHANGED <<config, rotation>>

\* index.js:322, 337 (and 146): the text of the call enters the loop
BeginParse(r) ==
    /\ req[r].stage \in {"PLAN", "COMPONENTS"}
    /\ req[r].pc = "returned"
    /\ Set(r, [req[r] EXCEPT !.pc = "parse", !.jsonString = req[r].text,
                  !.correcting = FALSE,
                  !.attempts = IF req[r].correcting THEN @ ELSE 0,
                  !.parses = IF req[r].correcting THEN @ ELSE 0,
                  !.corrections = IF req[r].correcting THEN @ ELSE 0])
    /\ UNCHANGED <<config, rotation>>

\* index.js:134-147: one turn of the loop
Parse(r) ==
    /\ req[r].pc = "parse"
    /\ LET rec == [req[r] EXCEPT !.parses = @ + 1] IN
       IF ParseOk(rec.jsonString)
       THEN Set(r, [rec EXCEPT !.pc = "parsed", !.parsedJson = JsonParse(rec.jsonString)])
       ELSE LET failed == [rec EXCEPT !.attempts = @ + 1] IN
            IF GivesUp(failed.attempts)
            THEN Set(r, Throw(failed, "ParseFailed"))
            ELSE Set(r, [Invoke(failed, failed.stage, FALSE, PlanImages(failed))
                            EXCEPT !.correcting = TRUE, !.corrections = @ + 1,
                                   !.quoted = {"jsonString"},
                                   !.issued = failed.issued])
    /\ UNCHANGED <<config, rotation>>

\* ---------------------------------------------------------------- the handlers
Platforms == {"android", "ios", "missing", "web"}

\* index.js:305-321
StartWeb(r, n) ==
    /\ req[r].pc = "idle"
    /\ LET rec == [Idle EXCEPT !.route = "web", !.images = n] IN
       IF n = 0
       THEN Set(r, [rec EXCEPT !.pc = "responded", !.status = 400])
       ELSE Set(r, Invoke(rec, "PLAN", FALSE, AllImages(rec)))
    /\ UNCHANGED <<config, rotation>>

\* index.js:387-410
StartNative(r, n, platform) ==
    /\ req[r].pc = "idle"
    /\ LET rec == [Idle EXCEPT !.route = "native", !.images = n, !.platform = platform] IN
       IF n = 0 \/ platform \notin {"android", "ios"}
       THEN Set(r, [rec EXCEPT !.pc = "responded", !.status = 400])
       ELSE Set(r, Invoke(rec, "PLAN", FALSE, AllImages(rec)))
    /\ UNCHANGED <<config, rotation>>

\* a handler that takes the prompt as it comes
StartTextUnchecked(r, prompt) ==
    /\ req[r].pc = "idle"
    /\ Set(r, Invoke([Idle EXCEPT !.route = "text", !.prompt = prompt], "PLAN", FALSE, << >>))
    /\ UNCHANGED <<config, rotation>>

\* index.js:511-525
StartText(r, prompt) ==
    /\ req[r].pc = "idle"
    /\ LET rec == [Idle EXCEPT !.route = "text", !.prompt = prompt] IN
       IF prompt # "text"
       THEN Set(r, [rec EXCEPT !.pc = "responded", !.status = 400])
       ELSE Set(r, Invoke(rec, "PLAN", FALSE, << >>))
    /\ UNCHANGED <<config, rotation>>

\* toPascalCase of the strings the plans name, worked out once
PlanNames == UNION {Range(p.pages) \cup Range(p.reusable_components) : p \in PlanReplies}
Tabulated == [s \in {x \in PlanNames : ~IsInvalid(x)} |-> toPascalCase(s, -1)]

\* plan.pages.map(toPascalCase): every invalid name with its own random draw
Normalized(names, draws) ==
    [k \in DOMAIN names |-> IF IsInvalid(names[k]) THEN toPascalCase(names[k], draws[k])
                             ELSE Tabulated[names[k]]]

\* draws[k] is the number Math.random gives for names[k], -1 where it is not called
DrawsFor(names, draws) ==
    \A k \in DOMAIN draws :
        (draws[k] # -1) <=> (k \in DOMAIN names /\ IsInvalid(names[k]))

\* index.js:322-336, 411-424, 526-539: the plan is normalized, the next call made
PlanDone(r) ==
    /\ req[r].stage = "PLAN"
    /\ req[r].pc = "parsed"
    /\ LET v == req[r].parsedJson IN
       IF v.shape # "plan"
       THEN Set(r, Throw(Parsed(req[r]), "TypeError"))
       ELSE \E d1, d2 \in [1..MaxNames -> Draws \cup {-1}] :
            /\ DrawsFor(v.pages, d1)
            /\ DrawsFor(v.reusable_components, d2)
            /\ Set(r, ToComponents([Parsed(req[r]) EXCEPT
                      !.plan = JsonPlan(Normalized(v.pages, d1),
                                        Normalized(v.reusable_components, d2)),
                      !.i = 0]))
    /\ UNCHANGED <<config, rotation>>

\* index.js:339-340: the own keys of what was parsed, with their values
\* (null, a number, an empty object or array have none)
ObjectEntries(v) ==
    IF v.shape = "object" THEN {<<e[1], Prose(e[2])>> : e \in v.entries} ELSE {}

\* a component builder that takes the names off the plan's list as it goes
ComponentsDoneConsumes(r) ==
    /\ req[r].stage = "COMPONENTS"
    /\ req[r].pc = "parsed"
    /\ LET writes == {<<ComponentPath(req[r], e[1]), e[2]>> :
                          e \in ObjectEntries(req[r].parsedJson)} IN
       Set(r, ToPages([Parsed(req[r]) EXCEPT
                 !.generatedFiles = WriteAll(@, writes), !.i = 0,
                 !.plan = [@ EXCEPT !.reusable_components = << >>]]))
    /\ UNCHANGED <<config, rotation>>

\* index.js:337-358, 425-441, 540-556: one file per key, then the first page
ComponentsDone(r) ==
    /\ req[r].stage = "COMPONENTS"
    /\ req[r].pc = "parsed"
    /\ LET writes == {<<ComponentPath(req[r], e[1]), e[2]>> :
                          e \in ObjectEntries(req[r].parsedJson)} IN
       Set(r, ToPages([Parsed(req[r]) EXCEPT
                 !.generatedFiles = WriteAll(@, writes), !.i = 0]))
    /\ UNCHANGED <<config, rotation>>

\* index.js:358-360, 441-443, 556-558: the page is stored, the loop goes on
PageDone(r) ==
    /\ req[r].stage = "PAGES"
    /\ req[r].pc = "returned"
    /\ Set(r, ToPages([req[r] EXCEPT
                 !.generatedFiles = Write(@, PagePath(req[r], req[r].plan.pages[req[r].i + 1]),
                                          req[r].text),
                 !.i = @ + 1]))
    /\ UNCHANGED <<config, rotation>>

\* index.js:365-371, 448-454, 563-569
EntryDone(r) ==
    /\ req[r].stage = "ENTRY"
    /\ req[r].pc = "returned"
    /\ Set(r, ToReview([req[r] EXCEPT
                 !.generatedFiles = Write(@, EntryPath(req[r]), req[r].text)]))
    /\ UNCHANGED <<config, rotation>>

\* index.js:371-378, 454-461, 569-576: the scaffold is added, the response sent
ReviewDone(r) ==
    /\ req[r].stage = "REVIEW"
    /\ req[r].pc = "returned"
    /\ Set(r, [Respond(req[r], 200,
                        IF req[r].route = "native"
                        THEN getNativeProjectFiles(req[r])
                        ELSE getProjectFiles(req[r].generatedFiles),
                        req[r].text)
                 EXCEPT !.stage = "DONE",
                        !.generatedFiles = IF req[r].route = "native"
                                           THEN AfterNativeAssembly(req[r]) ELSE @])
    /\ UNCHANGED <<config, rotation>>

\* a catch block that answers with the files built so far
FailureBodyPartial(rec) == rec.generatedFiles

\* what the catch block answers: an error message, no file, no review
FailureBody(rec) == NoFiles

\* index.js:380-383, 463-466, 578-581: whatever was thrown, one generic answer
Failed(r) ==
    /\ req[r].route \in Pipelines
    /\ req[r].pc = "threw"
    /\ Set(r, Respond(req[r], 500, FailureBody(req[r]), NoText))
    /\ UNCHANGED <<config, rotation>>

\* ---------------------------------------------------------------- POST /api/analyze-prompt
Prompts == {"missing", "blank", "text"}

\* index.js:470-499
StartAnalyze(r, prompt) ==
    /\ req[r].pc = "idle"
    /\ IF prompt # "text"
       THEN Set(r, [Idle EXCEPT !.route = "analyze", !.pc = "responded", !.status = 400])
       ELSE Set(r, Invoke([Idle EXCEPT !.route = "analyze"], "ANALYZE", FALSE, << >>))
    /\ UNCHANGED <<config, rotation>>

\* index.js:499-507
AnalyzeDone(r) ==
    /\ req[r].route = "analyze"
    /\ req[r].pc \in {"returned", "threw"}
    /\ Set(r, IF req[r].pc = "returned"
              THEN Respond(req[r], 200, NoFiles, req[r].text)
              ELSE Respond(req[r], 500, NoFiles, NoText))
    /\ UNCHANGED <<config, rotation>>

\* ---------------------------------------------------------------- specifications
NextInvoke ==
    \E r \in Runs :
        \/ \E p \in Prompts : StartAnalyze(r, p)
        \/ Attempt(r)
        \/ \E t \in Replies(req[r]) : ServiceOk(r, t)
        \/ ServiceRateLimit(r)
        \/ ServiceError(r)
        \/ BackoffDone(r)
        \/ AnalyzeDone(r)

\* the generation pipelines, one request at a time
Solo == {1}

Next ==
    \E r \in Solo :
        \/ \E n \in 0..MaxImages : StartWeb(r, n)
        \/ \E n \in 0..MaxImages, pf \in Platforms : StartNative(r, n, pf)
        \/ \E p \in Prompts : StartText(r, p)
        \/ Attempt(r)
        \/ \E t \in Replies(req[r]) : ServiceOk(r, t)
        \/ ServiceRateLimit(r)
        \/ ServiceError(r)
        \/ BackoffDone(r)
        \/ BeginParse(r)
        \/ Parse(r)
        \/ PlanDone(r)
        \/ ComponentsDone(r)
        \/ PageDone(r)
        \/ EntryDone(r)
        \/ ReviewDone(r)
        \/ Failed(r)

Spec == Init /\ [][Next]_vars

\* what a request that was received goes on with: the service answers every
\* call, the timer fires, and the event loop runs every continuation
Progress ==
    \E r \in Solo :
        \/ Attempt(r)
        \/ \E t \in Replies(req[r]) : ServiceOk(r, t)
        \/ ServiceRateLimit(r)
        \/ ServiceError(r)
        \/ BackoffDone(r)
        \/ BeginParse(r)
        \/ Parse(r)
        \/ PlanDone(r)
        \/ ComponentsDone(r)
        \/ PageDone(r)
        \/ EntryDone(r)
        \/ ReviewDone(r)
        \/ Failed(r)

\* the pools the fair behaviours are followed for
InitLive == Init /\ numClients * numModels <= MaxLiveCandidates

SpecLive == InitLive /\ [][Next]_vars /\ WF_vars(Progress)

\* concurrent requests to /api/analyze-prompt: one logical call each
SpecInvoke == Init /\ [][NextInvoke]_vars

\* the same, every call recording the candidates it uses
SpecAudit == InitAudit /\ [][NextInvoke]_vars

\* ---------------------------------------------------------------- two requests at once
\* Two requests to the generation handlers, their awaits interleaved.  What
\* the service answers to a call of request r is marked with r: the plan names
\* pages and components of r's own, every content is numbered 10 * r + k.
Pair == {1, 2}

PairPlan(r) ==
    IF r = 1 THEN JsonPlan(<< Str("login page") >>, << Str("nav bar") >>)
    ELSE JsonPlan(<< Str("home"), Str("Home") >>, << Str("Footer") >>)

PairObject(r) ==
    IF r = 1 THEN JsonObject({<<Str("NavBar"), <<"component", 10 * r + 1>>>>})
    ELSE JsonObject({<<Str("Footer"), <<"component", 10 * r + 1>>>>})

PairReplies(r, rec) ==
    CASE rec.stage = "PLAN" -> {JsonText(PairPlan(r)), Fenced(JsonText(PairPlan(r)))}
      [] rec.stage = "COMPONENTS" -> {JsonText(PairObject(r)), JsonText(JsonObject({}))}
      [] rec.stage = "REVIEW" -> {JsonText(JsonReview(85))}
      [] OTHER -> {Prose(<<rec.stage, 10 * r + (IF rec.stage = "PAGES" THEN rec.i + 1 ELSE 0)>>)}

\* the requests of the pair: no screen or every screen, one platform served
\* and one refused
PairImages == {0, MaxImages}
PairPlatforms == {"android", "missing"}

NextPair ==
    \E r \in Pair :
        \/ \E n \in PairImages : StartWeb(r, n)
        \/ \E n \in PairImages, pf \in PairPlatforms : StartNative(r, n, pf)
        \/ \E p \in Prompts : StartText(r, p)
        \/ Attempt(r)
        \/ \E t \in PairReplies(r, req[r]) : ServiceOk(r, t)
        \/ ServiceRateLimit(r)
        \/ ServiceError(r)
        \/ BackoffDone(r)
        \/ BeginParse(r)
        \/ Parse(r)
        \/ PlanDone(r)
        \/ ComponentsDone(r)
        \/ PageDone(r)
        \/ EntryDone(r)
        \/ ReviewDone(r)
        \/ Failed(r)

\* the pool the pair is followed for: every key, one model
InitPair == Init /\ numClients = MaxClients /\ numModels = 1

SpecPair == InitPair /\ [][NextPair]_vars

\* ---------------------------------------------------------------- toPascalCase on its own
\* the characters the strings are made of: a lower-case letter, an upper-case
\* letter, a digit and a character outside [a-zA-Z0-9]
Chars == {"a", "B", "1", "-"}
Strings == UNION {[1..n -> Chars] : n \in 0..MaxLen}
Inputs == Strings \cup {NotAString}

InitNames ==
    /\ numClients = 1 /\ numModels = 1
    /\ currentClientIndex = 0 /\ currentModelIndex = 0
    /\ selections = <<>> /\ audited = {}
    /\ req = [r \in Runs |-> Idle]
    /\ given \in Inputs
    /\ results = << >>

\* the values toPascalCase has returned so far
Returned == {results[k].out : k \in DOMAIN results}

\* index.js:81-90: one call, on the given string or on an earlier result; n is
\* what Math.random gives where it is called, -1 where it is not
Normalize(arg, n) ==
    /\ Len(results) < MaxCalls
    /\ arg \in {given} \cup Returned
    /\ (n # -1) <=> IsInvalid(arg)
    /\ results' = Append(results, [arg |-> arg, out |-> toPascalCase(arg, n)])
    /\ UNCHANGED <<numClients, numModels, audited, given, rotation, req>>

NextNames ==
    \E arg \in {given} \cup Returned, n \in Draws \cup {-1} : Normalize(arg, n)

SpecNames == InitNames /\ [][NextNames]_vars

\* ---------------------------------------------------------------- properties
NumCandidates == numClients * numModels

\* the logical call of r is over: it returned a text or threw
CallOver(r) == req[r].pc \in {"returned", "threw"}

C8_DistinctCandidates ==
    \A r \in audited : Cardinality(req[r].tried) = req[r].calls

\* C31: a logical call that ends with "All API keys and models have failed"
\* has tried every candidate of the pool, also when other requests selected
\* candidates between its attempts.
C31_ExhaustedTriedAll ==
    \A r \in audited :
        (req[r].pc = "threw" /\ req[r].err = "AllFailed") => req[r].tried = Candidates

\* ---------------------------------------------------------------- pipeline properties
FatalStages == {"PLAN", "COMPONENTS", "PAGES", "ENTRY"}

\* C3: once a call or a parse has failed in PLAN, COMPONENTS, PAGES or ENTRY the
\* run only answers the generic failure: it is thrown or answered in the stage
\* that failed (no later stage, no further call), and the answer is status 500
\* with no file and no review.
C3_FailureAborts ==
    \A r \in Runs :
        (req[r].route \in Pipelines /\ req[r].err # "none") =>
            /\ req[r].pc \in {"threw", "responded"}
            /\ (req[r].stage \in FatalStages /\ req[r].pc = "responded") =>
                  /\ req[r].status = 500
                  /\ req[r].body = NoFiles
                  /\ req[r].accuracyResult = NoText

C3_Witness ==
    \E r \in Runs :
        /\ req[r].pc = "responded" /\ req[r].stage = "PAGES" /\ req[r].err = "AllFailed"
        /\ req[r].status = 500
        /\ req[r].generatedFiles # NoFiles
        /\ req[r].body = NoFiles

\* the placeholder the reviewer's failure is said to degrade to
IsReview(t) == t.json /\ t.val.shape = "review"
ReviewPlaceholder == JsonText(JsonReview(0))

\* C4: a run that reached REVIEW is answered with status 200 and all its files,
\* whatever REVIEW does; when the reviewer's call fails or its answer is no
\* valid {score, justification}, the review is the placeholder with score 0.
C4_ReviewDegrades ==
    \A r \in Runs :
        (req[r].route \in Pipelines /\ req[r].pc = "responded"
            /\ req[r].stage \in {"REVIEW", "DONE"}) =>
            /\ req[r].status = 200
            /\ \A q \in DOMAIN req[r].generatedFiles : q \in DOMAIN req[r].body
            /\ IsReview(req[r].accuracyResult)
            /\ (req[r].err # "none" => req[r].accuracyResult = ReviewPlaceholder)

Rank(stage) ==
    CASE stage = "IDLE" -> 0
      [] stage = "PLAN" -> 1
      [] stage = "COMPONENTS" -> 2
      [] stage = "PAGES" -> 3
      [] stage = "ENTRY" -> 4
      [] stage = "REVIEW" -> 5
      [] OTHER -> 6

\* the stage that follows stage of a run whose plan is plan
Following(stage, plan) ==
    CASE stage = "IDLE" -> "PLAN"
      [] stage = "PLAN" /\ plan.reusable_components # << >> -> "COMPONENTS"
      [] stage \in {"PLAN", "COMPONENTS"} /\ plan.pages # << >> -> "PAGES"
      [] stage \in {"PLAN", "COMPONENTS", "PAGES"} -> "ENTRY"
      [] stage = "ENTRY" -> "REVIEW"
      [] OTHER -> "DONE"

\* the last call of the stage has returned (and, where the stage parses, the
\* repair loop has returned a value) and nothing was thrown
Completed(rec) ==
    /\ rec.err = "none"
    /\ rec.pc = IF rec.stage \in {"PLAN", "COMPONENTS"} THEN "parsed" ELSE "returned"
    /\ rec.stage = "PAGES" => rec.i = Len(rec.plan.pages) - 1

\* C5: a run changes stage only forwards, to the stage that follows in the
\* order PLAN, COMPONENTS, PAGES, ENTRY, REVIEW (a stage with nothing to do is
\* passed over), and only when the last call of the stage it leaves has
\* completed successfully; every attempt is issued for the stage the run is in.
C5_StageOrder ==
    [][\A r \in Runs :
         /\ req'[r].stage # req[r].stage =>
               /\ Rank(req'[r].stage) > Rank(req[r].stage)
               /\ req'[r].stage = Following(req[r].stage, req'[r].plan)
               /\ req[r].stage \in Stages => Completed(req[r])
         /\ req'[r].calls > req[r].calls =>
               /\ req[r].pc = "enter"
               /\ req'[r].stage = req[r].stage
               /\ req'[r].sent = req[r].sent]_vars

C5_Witness ==
    \E r \in Runs :
        /\ req[r].stage = "REVIEW" /\ req[r].pc = "await"
        /\ req[r].plan.reusable_components # << >>
        /\ Len(req[r].plan.pages) = 2
        /\ req[r].calls >= 2

\* C6: the repair loop returns the value of the first text that parses when
\* that text is one of the first 3: having parsed n texts in vain it returns
\* after exactly n + 1 parses and n correction calls (n <= 2), what it returns
\* is the parse of the last text received, and it does not give up while fewer
\* than 3 texts have failed to parse.
C6_RepairReturnsFirstParse ==
    \A r \in Runs :
        /\ req[r].pc = "parsed" =>
              /\ req[r].text.json
              /\ req[r].parsedJson = req[r].text.val
              /\ req[r].parses = req[r].attempts + 1
              /\ req[r].corrections = req[r].attempts
              /\ req[r].parses <= 3
        /\ (req[r].pc = "threw" /\ req[r].err = "ParseFailed") => req[r].attempts >= 3

C6_Witness ==
    \E r \in Runs :
        /\ req[r].pc = "parsed"
        /\ req[r].parses = 3 /\ req[r].corrections = 2
        /\ req[r].parsedJson.shape = "plan"

\* C7: the repair loop never parses more than 3 texts nor asks for more than 2
\* corrections; when it fails with MalformedOutput it has parsed exactly 3
\* texts, none of which parsed, and asked for exactly 2 corrections, none
\* after the last failed parse.
C7_RepairBounded ==
    \A r \in Runs :
        /\ req[r].parses <= 3
        /\ req[r].corrections <= 2
        /\ (req[r].pc = "threw" /\ req[r].err = "ParseFailed") =>
              /\ req[r].parses = 3
              /\ req[r].attempts = 3
              /\ req[r].corrections = 2
              /\ ~ParseOk(req[r].jsonString)

C7_Witness ==
    \E r \in Runs :
        /\ req[r].pc = "threw" /\ req[r].err = "ParseFailed"
        /\ req[r].stage = "COMPONENTS"

\* ---------------------------------------------------------------- empty plans, batching
Planned(rec) == rec.route \in Pipelines /\ rec.plan.shape = "plan"
NoPages(rec) == Planned(rec) /\ rec.plan.pages = << >>
IsPagePath(q) == q[1] \in {"src/pages/", "screens/"}
IsComponentPath(q) == q[1] \in {"src/components/", "components/"}

\* C11: a run whose plan has no page never issues a PAGES call, has no page
\* file among its files or in its answer, and, no call or parse of it having
\* failed, is answered with status 200 and its files.
C11_NoPagesNoPageCalls ==
    \A r \in Runs :
        NoPages(req[r]) =>
            /\ req[r].issued["PAGES"] = 0
            /\ req[r].stage # "PAGES"
            /\ \A q \in DOMAIN req[r].generatedFiles \cup DOMAIN req[r].body : ~IsPagePath(q)
            /\ (req[r].pc = "responded" /\ req[r].err = "none") =>
                  /\ req[r].status = 200
                  /\ req[r].stage = "DONE"
                  /\ \A q \in DOMAIN req[r].generatedFiles : q \in DOMAIN req[r].body

C11_Witness ==
    \E r \in Runs :
        /\ NoPages(req[r])
        /\ req[r].pc = "responded" /\ req[r].status = 200
        /\ req[r].plan.reusable_components # << >>
        /\ req[r].body # NoFiles

C16_ErrorCarriesStageAndText ==
    \A r \in Runs :
        (req[r].pc = "threw" /\ req[r].err = "ParseFailed") =>
            /\ "stage" \in DOMAIN req[r].thrown
            /\ req[r].thrown.stage = req[r].stage
            /\ "raw" \in DOMAIN req[r].thrown
            /\ req[r].thrown.raw = req[r].jsonString

\* C17: for a non-empty string the result holds letters and digits only; it
\* begins with an upper-case letter whenever the argument holds a letter or a
\* digit; and every call with that argument gives that result.
C17_NormalizerOutput ==
    \A k \in DOMAIN results :
        LET a == results[k].arg
            o == results[k].out
        IN ~IsInvalid(a) =>
            /\ \A i \in DOMAIN o : IsAlnum(o[i])
            /\ (\E i \in DOMAIN a : IsAlnum(a[i])) => (o # << >> /\ IsUpper(o[1]))
            /\ \A j \in DOMAIN results : results[j].arg = a => results[j].out = o

\* C18: normalizing the non-empty result of a non-empty string gives that
\* result again.
C18_NormalizerIdempotent ==
    \A j, k \in DOMAIN results :
        (~IsInvalid(results[k].arg) /\ results[k].out # << >>
            /\ results[j].arg = results[k].out) =>
            results[j].out = results[k].out

\* C19: every request that was received is answered in the end, with status
\* 200, 400 or 500; on the way no call makes more attempts than there are
\* candidates and no repair loop parses more than 3 texts.
C19_Terminates ==
    /\ [](\A r \in Runs :
            /\ req[r].calls <= numClients * numModels
            /\ req[r].attempt <= numClients * numModels + 1
            /\ req[r].parses <= 3)
    /\ \A r \in Runs :
          (req[r].pc # "idle") ~>
              (req[r].pc = "responded" /\ req[r].status \in {200, 400, 500})

C19_Witness ==
    \E r \in Runs :
        /\ req[r].pc = "threw" /\ req[r].err = "AllFailed"
        /\ req[r].stage = "COMPONENTS" /\ req[r].corrections = 2
        /\ req[r].rateFails = numClients * numModels

\* C29: after PLAN every identifier of the page list and of the component
\* list is non-empty, whatever names the service gave.
C29_IdentifiersNonEmpty ==
    \A r \in Runs :
        Planned(req[r]) =>
            \A name \in Range(req[r].plan.pages) \cup Range(req[r].plan.reusable_components) :
                name # << >>

InCall(rec) == rec.pc \in {"enter", "await", "backoff", "returned"}

\* C21: in the image routes the page composer makes one call per page, in
\* plan order, and the call for page i carries exactly one attachment, the
\* i-th screen of the request, also when the plan has more pages than the
\* request has screens.
C21_PagesCarryOwnAttachment ==
    \A r \in Runs :
        (Planned(req[r]) /\ req[r].route \in {"web", "native"}) =>
            /\ (req[r].stage = "PAGES" /\ InCall(req[r])) =>
                  /\ req[r].issued["PAGES"] = req[r].i + 1
                  /\ req[r].sent = << req[r].i + 1 >>
                  /\ req[r].i + 1 \in 1..req[r].images
            /\ Rank(req[r].stage) > Rank("PAGES") =>
                  req[r].issued["PAGES"] = Len(req[r].plan.pages)

ComponentPaths(rec) == {q \in DOMAIN rec.generatedFiles : IsComponentPath(q)}
PagePaths(rec) == {q \in DOMAIN rec.generatedFiles : IsPagePath(q)}

\* C22: once COMPONENTS has succeeded the files hold one component file for
\* every identifier of the plan's component list, at the path made from it,
\* and no other component file.
C22_ComponentsMatchPlan ==
    \A r \in Runs :
        (Planned(req[r]) /\ req[r].issued["COMPONENTS"] = 1
            /\ Rank(req[r].stage) > Rank("COMPONENTS")) =>
            ComponentPaths(req[r]) =
                {ComponentPath(req[r], name) : name \in Range(req[r].plan.reusable_components)}

\* the last of the first n pages that has the name of page k
LastNamed(pages, n, k) ==
    CHOOSE j \in 1..n : pages[j] = pages[k] /\ \A m \in (j + 1)..n : pages[m] # pages[k]

\* C23: identifiers are not deduplicated.  The page composer makes one call
\* for every page of the plan, pages of one name included; the files hold
\* one page file per distinct name, and it is the answer to the call for the
\* last page of that name.
C23_LastWriteWins ==
    \A r \in Runs :
        Planned(req[r]) =>
            LET pages == req[r].plan.pages
                n == req[r].i
            IN /\ n <= Len(pages)
               /\ req[r].issued["PAGES"] = IF req[r].stage = "PAGES" THEN n + 1 ELSE n
               /\ PagePaths(req[r]) = {PagePath(req[r], pages[k]) : k \in 1..n}
               /\ \A k \in 1..n :
                     req[r].generatedFiles[PagePath(req[r], pages[k])] =
                         Prose(<<"PAGES", LastNamed(pages, n, k)>>)
               /\ Cardinality(PagePaths(req[r])) = Cardinality({pages[k] : k \in 1..n})

C23_Witness ==
    \E r \in Runs :
        /\ Planned(req[r]) /\ req[r].stage = "DONE"
        /\ Len(req[r].plan.pages) = 2
        /\ req[r].plan.pages[1] = req[r].plan.pages[2]
        /\ req[r].issued["PAGES"] = 2
        /\ Cardinality(PagePaths(req[r])) = 1
        /\ \A q \in PagePaths(req[r]) : req[r].body[q] = Prose(<<"PAGES", 2>>)

\* C24: a correction call that fails ends the repair loop with its own
\* error.  The failure is not counted as a failed parse and is not turned
\* into the loop's error; the next thing the run does is answer the generic
\* failure, no further parse or call in between.
C24_CorrectionFailurePropagates ==
    /\ [](\A r \in Runs :
            (req[r].correcting /\ req[r].pc = "threw") =>
                /\ req[r].err \in {"AllFailed", "ServiceError"}
                /\ req[r].attempts = req[r].corrections
                /\ req[r].parses = req[r].corrections)
    /\ [][\A r \in Runs :
            (req[r].correcting /\ req[r].pc = "threw" /\ req'[r] # req[r]) =>
                /\ req'[r].pc = "responded" /\ req'[r].status = 500
                /\ req'[r].err = req[r].err /\ req'[r].thrown = req[r].thrown
                /\ req'[r].stage = req[r].stage
                /\ req'[r].body = NoFiles
                /\ UNCHANGED <<currentClientIndex, currentModelIndex>>]_vars

C24_Witness ==
    \E r \in Runs :
        /\ req[r].correcting /\ req[r].pc = "threw" /\ req[r].err = "AllFailed"
        /\ req[r].stage = "PLAN" /\ req[r].corrections = 1

\* C25: within one call, an attempt answered 429 is followed by one wait, and
\* only when the wait is over is the next attempt made, with the candidate
\* the cursors then give (after which they advance); an attempt that fails
\* otherwise is followed by no wait and no attempt.
C25_BackoffThenNextCandidate ==
    [][\A r \in Runs :
         /\ req'[r].rateFails > req[r].rateFails =>
               /\ req[r].pc = "await" /\ req'[r].pc = "backoff"
               /\ req'[r].calls = req[r].calls
         /\ req'[r].otherFails > req[r].otherFails =>
               /\ req[r].pc = "await" /\ req'[r].pc = "threw"
         /\ (req[r].pc = "backoff" /\ req'[r] # req[r]) =>
               /\ req'[r].pc = "enter"
               /\ req'[r].attempt = req[r].attempt + 1
               /\ req'[r].calls = req[r].calls
         /\ (req[r].pc = "threw" /\ req[r].err = "ServiceError") =>
               req'[r].pc \in {"threw", "responded"}
         /\ req'[r].calls > req[r].calls =>
               /\ req[r].pc = "enter" /\ req'[r].pc = "await"
               /\ req'[r].calls = req[r].calls + 1
               /\ req[r].rateFails = req[r].attempt - 1
               /\ req[r].calls = req[r].attempt - 1
               /\ currentClientIndex' = (currentClientIndex + 1) % numClients
               /\ Len(selections) < MaxSel =>
                     selections' = Append(selections, <<currentClientIndex, currentModelIndex>>)]_vars

C25_Witness ==
    \E r \in Runs :
        /\ req[r].pc = "await" /\ req[r].attempt = 3
        /\ req[r].rateFails = 2 /\ req[r].calls = 3

\* C26: the plan is made once.  From the step that normalizes the two lists
\* on, no step of the run changes the page list or the component list.
C26_PlanReadOnly ==
    [][\A r \in Runs :
         /\ Planned(req[r]) => req'[r].plan = req[r].plan
         /\ req'[r].plan # req[r].plan =>
               (req[r].stage = "PLAN" /\ req[r].pc = "parsed" /\ req[r].plan = NoJson)]_vars

C26_Witness ==
    \E r \in Runs :
        /\ Planned(req[r]) /\ req[r].stage = "DONE" /\ req[r].route = "native"
        /\ req[r].plan.reusable_components # << >>
        /\ req[r].plan.pages # << >>

\* C27: the files of a run start empty and only grow: COMPONENTS, PAGES and
\* ENTRY add to them, PLAN, REVIEW and the assembly of the answer leave
\* them as they are, and no step takes a path away.
C27_FilesOnlyGrow ==
    /\ [](\A r \in Runs :
            req[r].stage \in {"IDLE", "PLAN"} => req[r].generatedFiles = NoFiles)
    /\ [][\A r \in Runs :
            /\ \A q \in DOMAIN req[r].generatedFiles : q \in DOMAIN req'[r].generatedFiles
            /\ req[r].stage \in {"PLAN", "REVIEW"} =>
                  req'[r].generatedFiles = req[r].generatedFiles]_vars

\* C30: the reviewer's call is built from what the earlier stages made: its
\* prompt holds the code of the first page that was generated, it carries the
\* first screen (image routes) or holds the user's prompt (text route), and
\* it asks for JSON.
C30_ReviewSeesFirstPage ==
    \A r \in Runs :
        (req[r].route \in Pipelines /\ req[r].stage = "REVIEW" /\ InCall(req[r])) =>
            /\ req[r].isJsonResponse
            /\ req[r].route = "text" => "prompt" \in req[r].quoted
            /\ req[r].route # "text" => req[r].sent = << 1 >>
            /\ "generatedFiles" \in req[r].quoted

\* C32: in the files a native run is answered with, the entry file is at the
\* platform's path and no longer at the root (MainActivity.kt, resp.
\* ContentView.swift), and every other generated file is there unchanged at
\* its own path.
C32_NativeEntryMoved ==
    \A r \in Runs :
        (req[r].route = "native" /\ req[r].stage = "DONE" /\ req[r].status = 200) =>
            /\ NativeEntryPath(req[r]) \in DOMAIN req[r].body
            /\ req[r].body[NativeEntryPath(req[r])].code[1] = "ENTRY"
            /\ Fixed(mainFileName(req[r])) \notin DOMAIN req[r].body
            /\ \A q \in DOMAIN req[r].generatedFiles :
                   q \in DOMAIN req[r].body /\ req[r].body[q] = req[r].generatedFiles[q]

\* the request whose call a content was the answer to (0: none, the scaffold)
Owner(t) == t.code[2] \div 10

OwnPagePaths(rec) == {PagePath(rec, rec.plan.pages[k]) : k \in DOMAIN rec.plan.pages}
OwnComponentPaths(rec) ==
    {ComponentPath(rec, rec.plan.reusable_components[k]) : k \in DOMAIN rec.plan.reusable_components}

\* every file of the map is the scaffold's or holds what a call of r returned,
\* at a path made from r's plan
OwnFiles(r, rec, files) ==
    \A q \in DOMAIN files :
        /\ files[q] = Scaffold \/ Owner(files[q]) = r
        /\ IsPagePath(q) => q \in OwnPagePaths(rec)
        /\ IsComponentPath(q) => q \in OwnComponentPaths(rec)

C28_OwnArtifacts ==
    \A r \in Pair :
        /\ Planned(req[r]) =>
               /\ req[r].plan.pages = Normalized(PairPlan(r).pages, [k \in 1..MaxNames |-> -1])
               /\ req[r].plan.reusable_components =
                      Normalized(PairPlan(r).reusable_components, [k \in 1..MaxNames |-> -1])
        /\ OwnFiles(r, req[r], req[r].generatedFiles)
        /\ OwnFiles(r, req[r], req[r].body)

C28_OneSlot ==
    \A r, q \in Runs : (r # q /\ req'[r] # req[r]) => req'[q] = req[q]

NoInput(rec) ==
    \/ rec.route \in {"web", "native"} /\ rec.images = 0
    \/ rec.route = "text" /\ rec.prompt # "text"

\* C14: a request without screens (image routes) or with a missing or blank
\* prompt (text route) is answered with status 400 in the step that receives
\* it: no stage starts, no call is issued, no attempt is made, nothing is
\* generated, and the rotation cursors stay where they were.
C14_RejectedBeforeAnyCall ==
    /\ [](\A r \in Runs :
            NoInput(req[r]) =>
                /\ req[r].pc = "responded" /\ req[r].status = 400
                /\ req[r].stage = "IDLE"
                /\ req[r].calls = 0
                /\ \A s \in DOMAIN req[r].issued : req[r].issued[s] = 0
                /\ req[r].generatedFiles = NoFiles /\ req[r].body = NoFiles)
    /\ [][\A r \in Runs :
            (req[r].pc = "idle" /\ NoInput(req'[r])) =>
                UNCHANGED <<currentClientIndex, currentModelIndex, selections>>]_vars

C14_Witness ==
    \E r \in Runs :
        /\ req[r].route = "text" /\ req[r].prompt = "blank"
        /\ req[r].pc = "responded" /\ req[r].status = 400

\* the entry the empty plan is said to get instead of a generated one
StaticFallback == Prose(<<"fallback", 0>>)

\* C12: an ENTRY call is issued only for a plan with at least one page; a run
\* whose plan has no page issues none, and the entry file of its answer is
\* the static fallback.
C12_EntryOnlyWithPages ==
    \A r \in Runs :
        /\ (Planned(req[r]) /\ req[r].issued["ENTRY"] > 0) => req[r].plan.pages # << >>
        /\ (NoPages(req[r]) /\ req[r].pc = "responded" /\ req[r].status = 200) =>
              /\ EntryPath(req[r]) \in DOMAIN req[r].body
              /\ req[r].body[EntryPath(req[r])] = StaticFallback

\* C13: a REVIEW call is issued only for a plan with at least one page; a run
\* whose plan has no page issues none, and its answer carries the placeholder
\* review with score 0.
C13_ReviewOnlyWithPages ==
    \A r \in Runs :
        /\ (Planned(req[r]) /\ req[r].issued["REVIEW"] > 0) => req[r].plan.pages # << >>
        /\ (NoPages(req[r]) /\ req[r].pc = "responded" /\ req[r].status = 200) =>
              req[r].accuracyResult = ReviewPlaceholder

\* C20: the component builder is called at most once per run: not at all,
\* and no component file is written, when the plan lists no component; exactly
\* once when it lists any, however many, the repair loop adding at most 2
\* correction calls to it.
C20_ComponentsBatched ==
    \A r \in Runs :
        Planned(req[r]) =>
            /\ req[r].issued["COMPONENTS"] =
                  IF req[r].plan.reusable_components = << >> THEN 0 ELSE 1
            /\ req[r].plan.reusable_components = << >> =>
                  /\ req[r].stage # "COMPONENTS"
                  /\ \A q \in DOMAIN req[r].generatedFiles \cup DOMAIN req[r].body :
                        ~IsComponentPath(q)
            /\ req[r].stage = "COMPONENTS" =>
                  /\ req[r].corrections <= 2
                  /\ req[r].calls <= NumCandidates

C20_Witness ==
    \E r \in Runs :
        /\ Planned(req[r])
        /\ Len(req[r].plan.reusable_components) = 2
        /\ req[r].stage = "COMPONENTS" /\ req[r].pc = "parsed"
        /\ req[r].corrections = 2
        /\ req[r].issued["COMPONENTS"] = 1

\* the k-th selection (k = 0, 1, ...) of the rolling rotation
Roll(k) == <<k % numClients, (k \div numClients) % numModels>>

\* C9: in the sequence of selections every aligned block of C selections uses
\* each credential once, the model advances by one (modulo M) exactly at the
\* selections whose credential is 0 again, and any C*M consecutive selections
\* enumerate every candidate exactly once.
C9_RollingRotation ==
    LET n == Len(selections) IN
    /\ \A b \in 0..n : (b + 1) * numClients <= n =>
          {selections[b * numClients + j][1] : j \in 1..numClients} = 0..(numClients - 1)
    /\ \A k \in 1..(n - 1) :
          selections[k + 1][2] =
              IF selections[k + 1][1] = 0
              THEN (selections[k][2] + 1) % numModels
              ELSE selections[k][2]
    /\ \A s \in 0..n : s + NumCandidates <= n =>
          {selections[s + j] : j \in 1..NumCandidates} = Candidates

C9_Witness ==
    /\ numClients >= 2 /\ numModels >= 2
    /\ Len(selections) >= NumCandidates + 1

\* C10: whatever the interleaving of the requests, both cursors stay in range,
\* the candidates handed out are the rolling sequence in order, and the cursors
\* stand where that many selections leave them (none lost, none overwritten).
C10_AtomicSelection ==
    /\ currentClientIndex \in 0..(numClients - 1)
    /\ currentModelIndex \in 0..(numModels - 1)
    /\ \A k \in 1..Len(selections) : selections[k] = Roll(k - 1)
    /\ Len(selections) < MaxSel =>
          <<currentClientIndex, currentModelIndex>> = Roll(Len(selections))

C10_Witness ==
    /\ \A r \in Runs : req[r].pc = "await" /\ req[r].calls >= 2
    /\ numClients >= 2 /\ numModels >= 2
    /\ Len(selections) >= NumCandidates + 1

====
